---- MODULE Spec2Model ----
(***************************************************************************)
(* A model of the resilient streaming consumer of sikarra and of the       *)
(* exponential backoff sequencer it uses.                                  *)
(*                                                                         *)
(*   crates/core/src/backoff.rs          ExponentialBackoff                *)
(*   crates/wsclient/src/consumer.rs     WsConsumer::run, ::stream         *)
(*   crates/wsclient/src/client.rs       WsClient::write                   *)
(*   crates/adapters/src/coinbase/wsclient.rs   CoinbaseWsClient (hooks)   *)
(*                                                                         *)
(*   crates/core/src/runtime.rs          run (the process root)            *)
(*   crates/bot/src/engine/price_feed.rs the collectors and their feed     *)
(*   crates/adapters/src/uniswap_v4/models.rs   SpotPrice                  *)
(*   crates/adapters/src/coinbase/models.rs     CoinbaseMessage            *)
(*   crates/adapters/src/uniswap_v4/state.rs    watch_pool                 *)
(*   crates/bot/src/strategy/logging.rs         LoggingBotStrategy         *)
(*                                                                         *)
(* The specifications share the variables, each holding the parts it does  *)
(* not drive at their initial values:                                      *)
(*   SpecBackoff  a sequencer driven by arbitrary next()/reset() calls     *)
(*   Spec         the consumer task, its transport and its clients         *)
(*   SpecQueue    the outbound queue alone                                 *)
(*   SpecRuntime  the process root, the runner and its tasks               *)
(*   SpecFeed     the broadcast channel and the collectors                 *)
(*   SpecPrice    the spot price computed from a pool's square-root ratio  *)
(*   SpecDecode   the decoding of text frames and the ticker stream        *)
(*   SpecPoll     the polling of a pool's slot0 and the stream it yields   *)
(***************************************************************************)
EXTENDS Integers, Sequences, FiniteSets, TLC

VARIABLES
    backoff,            \* ExponentialBackoff: the struct's six fields
    overflow_checks,    \* build profile: TRUE = overflow panics, FALSE = wraps
    last_next,          \* what the last call of next() did, [tag, val]
    calls,              \* next() calls since new() or the last reset()
    resets,             \* reset() calls since new()
    panicked,           \* an arithmetic overflow panic has unwound the caller
    pc,                 \* the consumer task's position in run()/stream()
    result,             \* what run() returned
    cancelled,          \* the CancellationToken handed to run()
    cancel_at,          \* where the consumer was when the token was cancelled
    queue,              \* the outbound mpsc channel (clients -> consumer)
    next_msg,           \* id of the next message a client writes
    subscribers,        \* live receivers of the broadcast channel
    conn,               \* connections established so far
    attempts,           \* attempts started since start/the last connection
    fail_streak,        \* consecutive failed attempts since start/last success
    failed_before,      \* failed attempts that preceded the current connection
    delays,             \* delays returned by next() in the current streak
    attempted_after_cancel, \* an attempt was started with the token cancelled
    close_frames,       \* close frames written on the current connection
    received,           \* frames read from the current connection
    delivered,          \* frames handed to on_message on the current connection
    cur_frame,          \* the frame on_message is handling
    out_msg,            \* the outbound message being written to the transport
    num_message_since_last_heartbeat,
    disconnects,        \* on_disconnect calls for the current or last connection
    open_conns,         \* WebSocketStream values that are alive
    capacity,           \* capacity of the outbound queue, mpsc::channel(n)
    write_result,       \* what the last call of WsClient::write returned
    subscribe_result,   \* what the last CoinbaseWsClient::subscribe did
    receiver,           \* WsClient.receiver: TRUE = Some(receiver), FALSE = None
    consumer_results,   \* what each call of WsClient::consumer returned
    root_pc,            \* the process root's position in runtime::run
    root_outcome,       \* what the root logged about the runner's end
    shutdown_token,     \* the root CancellationToken (and so its children)
    signal,             \* the termination signal the root received
    grace_elapsed,      \* seconds since the root began its bounded wait
    runner_pc,          \* the top-level runner's position in its run()
    runner_result,      \* what the top-level runner's run() returned
    task,               \* the state of each task the runner spawns
    first_failed,       \* the task that failed first, 0 while none has
    bcast_sent,         \* messages the callback has put on the broadcast channel
    rx_next,            \* the price collector's receiver: next position, 0 = none
    rx_from,            \* the position at which that receiver subscribed
    collector,          \* each collector: "new", "live" (stream held), "dropped"
    held,               \* the event each collector task is about to forward
    pool_next,          \* pool updates the pool source has produced
    events,             \* the engine runner's bounded event channel
    processed,          \* events handed to the engine, in order
    unsub_result,       \* what unsubscribe_event_stream did, per collector
    sqrt_ratio_x96,     \* the arguments of SpotPrice::new_from_sqrt_ratio_x96
    token_0_decimals,
    token_1_decimals,
    invert,
    price_pc,           \* "input", "built" (new returned), "priced", "panic"
    spot_price,         \* the SpotPrice that new_from_sqrt_ratio_x96 built
    adjusted_price,     \* what adjsusted_to_decimal returned for it
    text_frames,        \* the JSON text frames on_message has been given
    decoded,            \* what serde_json::from_str returned for each frame
    polled,             \* results the ticker stream has gone past
    ticker_events,      \* the Tickers the ticker stream has yielded
    pool,               \* the configured pool: its tokens' decimals, invert
    watch_pc,           \* watch_pool's stream: "polling" or "ended"
    poll_results,       \* what each getSlot0 call returned, "ok" or "err"
    slot_data           \* the PoolSlotData the stream has yielded

backoff_vars == <<backoff, overflow_checks, last_next, calls, resets, panicked>>

consumer_vars ==
    <<pc, result, cancelled, cancel_at, queue, next_msg, subscribers, conn,
      attempts, fail_streak, failed_before, delays, attempted_after_cancel,
      close_frames, received, delivered, cur_frame, out_msg,
      num_message_since_last_heartbeat, disconnects, open_conns>>

queue_vars ==
    <<capacity, write_result, subscribe_result, receiver, consumer_results>>

runtime_vars ==
    <<root_pc, root_outcome, shutdown_token, signal, grace_elapsed, runner_pc,
      runner_result, task, first_failed>>

feed_vars ==
    <<bcast_sent, rx_next, rx_from, collector, held, pool_next, events, processed,
      unsub_result>>

price_vars ==
    <<sqrt_ratio_x96, token_0_decimals, token_1_decimals, invert, price_pc,
      spot_price, adjusted_price>>

decode_vars == <<text_frames, decoded, polled, ticker_events>>

poll_vars == <<pool, watch_pc, poll_results, slot_data>>

other_vars ==
    <<queue_vars, runtime_vars, feed_vars, price_vars, decode_vars,
      poll_vars>>

vars == <<backoff_vars, consumer_vars, other_vars>>

----------------------------------------------------------------------------
(* Bounds of the model.                                                    *)

\* next() calls followed between two resets (the u8 counter wraps at 256)
MaxCalls == 258
\* reset() calls followed in SpecBackoff
MaxResets == 2
\* capacity of the consumer's outbound queue, mpsc::channel(channel_size)
channel_size == 1
\* pools of the configuration: the runner spawns one engine runner for each
NumPools == 2

----------------------------------------------------------------------------
(* u32 and u8 arithmetic.  TLC's integers are 32-bit signed, so the 64-bit  *)
(* product of two u32 values is computed in 16-bit words.                   *)

W16 == 65536

U8Modulus == 256

\* x * y for x, y < 2^16, as the two 16-bit words of the 32-bit product
Mul16(x, y) ==
    LET p1 == (x % 256) * y
        p2 == (x \div 256) * y
        t  == p1 + (p2 % 256) * 256
    IN  [hi |-> (p2 \div 256) + (t \div W16), lo |-> t % W16]

\* a * b for a, b < 2^31: the four 16-bit words w3 w2 w1 w0 of the product
Mul32(a, b) ==
    LET al == a % W16
        ah == a \div W16
        bl == b % W16
        bh == b \div W16
        LL == Mul16(al, bl)
        LH == Mul16(al, bh)
        HL == Mul16(ah, bl)
        HH == Mul16(ah, bh)
        t1 == LL.hi + LH.lo + HL.lo
        t2 == LH.hi + HL.hi + HH.lo + (t1 \div W16)
    IN  [w0 |-> LL.lo, w1 |-> t1 % W16, w2 |-> t2 % W16,
         w3 |-> HH.hi + (t2 \div W16)]

\* `self.value_secs * self.factor` in u32: does the product leave 32 bits?
U32MulOverflows(a, b) ==
    LET p == Mul32(a, b) IN p.w2 # 0 \/ p.w3 # 0

\* `if next_value > self.max_secs { self.max_secs } else { next_value }` on
\* the wrapped product (its low 32 bits); max_secs < 2^31 here, so a wrapped
\* product with bit 31 set is above it.
ClampedProduct(a, b, max_secs) ==
    LET p == Mul32(a, b)
    IN  IF p.w1 >= 32768 THEN max_secs
        ELSE IF p.w1 * W16 + p.w0 > max_secs THEN max_secs
        ELSE p.w1 * W16 + p.w0

----------------------------------------------------------------------------
(* Integers and decimals of the price engine (I512, D512).  A value is     *)
(* zero or a signed product of powers of 2, 3 and 5, kept as its sign and  *)
(* its three exponents (negative exponents for fractions), so that         *)
(* products, squares and quotients are computed exactly.                   *)

Zero == [tag |-> "zero", neg |-> FALSE, e2 |-> 0, e3 |-> 0, e5 |-> 0]

Val(neg, a, b, c) == [tag |-> "val", neg |-> neg, e2 |-> a, e3 |-> b, e5 |-> c]

One == Val(FALSE, 0, 0, 0)

Pow10(k) == Val(FALSE, k, 0, k)

\* pub const Q192: 2^192, the digit 1 in the fourth 64-bit word
Q192 == Val(FALSE, 192, 0, 0)

\* A D512 quotient with no finite decimal expansion, rounded to the
\* precision of the type
Inexact == [tag |-> "inexact", neg |-> FALSE, e2 |-> 0, e3 |-> 0, e5 |-> 0]

\* x / 0 in D512: the library signals division by zero, which is a panic
\* when the context traps the signal and an Infinity (NaN for 0 / 0)
\* otherwise; every later operation hands it on
DivisionByZero ==
    [tag |-> "div_by_zero", neg |-> FALSE, e2 |-> 0, e3 |-> 0, e5 |-> 0]

\* Exact product and quotient of two rationals (y # 0 for the quotient)
RatMul(x, y) ==
    IF x.tag = "zero" \/ y.tag = "zero" THEN Zero
    ELSE Val(x.neg # y.neg, x.e2 + y.e2, x.e3 + y.e3, x.e5 + y.e5)

RatDiv(x, y) ==
    IF x.tag = "zero" THEN Zero
    ELSE Val(x.neg # y.neg, x.e2 - y.e2, x.e3 - y.e3, x.e5 - y.e5)

\* 10^153 < 2^511 <= 10^154: the largest power of ten an I512 holds
I512_MAX_POW10 == 153

\* I512::pow(2) of a value below 2^160: the square, which fits
I512_pow2(x) ==
    IF x.tag = "zero" THEN Zero ELSE Val(FALSE, 2 * x.e2, 2 * x.e3, 2 * x.e5)

\* i512!(10).pow(d) for d <= 154, as [tag, bits |-> to_bits(), negative |->
\* is_negative()].  10^154 needs 512 bits: the power overflows I512, which
\* panics when the build checks overflow and otherwise keeps the low 512
\* bits, here all the bits of 10^154 with the sign bit set.
I512_pow10(d, checks) ==
    IF d <= I512_MAX_POW10
    THEN [tag |-> "ok", bits |-> Pow10(d), negative |-> FALSE]
    ELSE IF checks
    THEN [tag |-> "panic", bits |-> Zero, negative |-> FALSE]
    ELSE [tag |-> "ok", bits |-> Pow10(d), negative |-> TRUE]

\* D512::from_parts(bits, 0, sign, ctx): the magnitude `bits` with the sign
D512_from_parts(bits, negative) ==
    IF bits.tag = "zero" THEN Zero ELSE [bits EXCEPT !.neg = negative]

\* x / y in D512: exact when the quotient has a finite decimal expansion
D512_div(x, y) ==
    CASE x.tag = "div_by_zero" \/ y.tag = "div_by_zero" -> DivisionByZero
      [] y.tag = "zero" -> DivisionByZero
      [] x.tag = "inexact" \/ y.tag = "inexact" -> Inexact
      [] x.tag = "zero" -> Zero
      [] OTHER -> IF x.e3 - y.e3 < 0 THEN Inexact ELSE RatDiv(x, y)

\* x * y in D512
D512_mul(x, y) ==
    CASE x.tag = "div_by_zero" \/ y.tag = "div_by_zero" -> DivisionByZero
      [] x.tag = "zero" \/ y.tag = "zero" -> Zero
      [] x.tag = "inexact" \/ y.tag = "inexact" -> Inexact
      [] OTHER -> RatMul(x, y)

----------------------------------------------------------------------------
(* ExponentialBackoff                                                      *)

ExponentialBackoff_new(retries, min_secs, max_secs, factor) ==
    [retries |-> retries, min_secs |-> min_secs, max_secs |-> max_secs,
     factor |-> factor, counter |-> 0, value_secs |-> min_secs]

ExponentialBackoff_default == ExponentialBackoff_new(10, 1, 60, 2)

\* reset() as it would be if it left the attempt counter alone
ExponentialBackoff_reset_keeps_counter(self) ==
    [self EXCEPT !.value_secs = 0]

ExponentialBackoff_reset(self) ==
    [self EXCEPT !.counter = 0, !.value_secs = 0]

value_secs(self) == self.value_secs

get_iteration_count(self) == self.counter

\* Outcomes of a call of next()
NoCall == [tag |-> "nocall", val |-> 0]
Exhausted == [tag |-> "none", val |-> 0]
Panic == [tag |-> "panic", val |-> 0]
Some(v) == [tag |-> "some", val |-> v]

\* next() as it would be with `self.counter > self.retries` for its guard
ExponentialBackoff_next_off_by_one(self, checks) ==
    IF self.retries > 0 /\ self.counter > self.retries
    THEN [self |-> self, ret |-> Exhausted]
    ELSE [self |-> [self EXCEPT
                       !.counter = (self.counter + 1) % U8Modulus,
                       !.value_secs =
                           ClampedProduct(self.value_secs, self.factor,
                                          self.max_secs)],
          ret |-> Some(self.value_secs)]

\* next(): [self |-> the sequencer afterwards, ret |-> the outcome].
\* `self.counter += 1` on a u8 and `self.value_secs * self.factor` on a u32
\* panic when the build checks overflow and wrap when it does not.
ExponentialBackoff_next(self, checks) ==
    IF self.retries > 0 /\ self.counter >= self.retries
    THEN [self |-> self, ret |-> Exhausted]
    ELSE
        LET value == self.value_secs
            counter == (self.counter + 1) % U8Modulus
        IN  IF self.counter + 1 >= U8Modulus /\ checks
            THEN [self |-> self, ret |-> Panic]
            ELSE IF counter = 0
            THEN [self |-> [self EXCEPT !.counter = counter,
                                        !.value_secs = self.min_secs],
                  ret |-> Some(value)]
            ELSE IF U32MulOverflows(self.value_secs, self.factor) /\ checks
            THEN [self |-> [self EXCEPT !.counter = counter], ret |-> Panic]
            ELSE [self |-> [self EXCEPT
                               !.counter = counter,
                               !.value_secs =
                                   ClampedProduct(self.value_secs, self.factor,
                                                  self.max_secs)],
                  ret |-> Some(value)]

----------------------------------------------------------------------------
(* SpecBackoff: a sequencer built by new() with parameters from             *)
(* BackoffParams (min <= max, factor >= 1), then driven by any              *)
(* interleaving of next() and reset().                                      *)

BackoffParams ==
    { <<3, 1, 8, 2>>, <<0, 1, 5, 10>>, <<10, 1, 60, 2>>, <<2, 0, 4, 3>>,
      <<1, 5, 5, 1>>, <<0, 2, 2, 1>>, <<4, 3, 100, 7>>,
      <<2, 1073741824, 2147483647, 4>>, <<3, 65536, 2147483647, 65536>> }

NoMsg == [kind |-> "none", id |-> 0]

NotCancelled == [pc |-> "none", conn |-> 0]

\* No call of write() yet
NoWrite == "none"

\* No call of subscribe() yet
NoSubscribe == [ok |-> FALSE, enqueued |-> FALSE, called |-> FALSE]

\* The outbound queue as WsClient::new(_, _, channel_size) builds it
InitQueue ==
    /\ capacity = channel_size
    /\ write_result = NoWrite
    /\ subscribe_result = NoSubscribe
    /\ receiver = TRUE
    /\ consumer_results = << >>

\* Tasks of the top-level runner: task 1 runs the streaming consumer,
\* tasks 2.. run the engine runners, in the order they are spawned
Tasks == 1..(NumPools + 1)

NoResult == [tag |-> "none", task |-> 0]

\* The process root before it polls the runner for the first time
InitRuntime ==
    /\ root_pc = "select"
    /\ root_outcome = "none"
    /\ shutdown_token = FALSE
    /\ signal = "none"
    /\ grace_elapsed = 0
    /\ runner_pc = "spawning"
    /\ runner_result = NoResult
    /\ task = [i \in Tasks |-> "unspawned"]
    /\ first_failed = 0

\* The collectors of one engine runner: the price feed collector (fed by
\* the broadcast channel) and the pool feed collector
Sources == {"price", "pool"}

NoEvent == [src |-> "none", id |-> 0]

\* The feed before any collector has subscribed
InitFeed ==
    /\ bcast_sent = << >>
    /\ rx_next = 0
    /\ rx_from = 0
    /\ collector = [c \in Sources |-> "new"]
    /\ held = [c \in Sources |-> NoEvent]
    /\ pool_next = 0
    /\ events = << >>
    /\ processed = << >>
    /\ unsub_result = [c \in Sources |-> "none"]

\* No SpotPrice built, no price computed
NoPrice == [tag |-> "none"]

\* The price engine before it is called, with the arguments of the one
\* call in the program (state.rs:110-118: sqrt_ratio from the pool, 18, 6)
InitPrice ==
    /\ sqrt_ratio_x96 = Val(FALSE, 96, 0, 0)
    /\ token_0_decimals = 18
    /\ token_1_decimals = 6
    /\ invert = FALSE
    /\ price_pc = "input"
    /\ spot_price = NoPrice
    /\ adjusted_price = NoPrice

\* No text frame received yet
InitDecode ==
    /\ text_frames = << >>
    /\ decoded = << >>
    /\ polled = 0
    /\ ticker_events = << >>

\* The pool of the sample configuration (bot/src/config.rs:146-150), not
\* yet watched
InitPoll ==
    /\ pool = [token_0_decimals |-> 18, token_1_decimals |-> 6,
               invert |-> FALSE]
    /\ watch_pc = "polling"
    /\ poll_results = << >>
    /\ slot_data = << >>

\* The parts of the program a specification does not drive stay as built
InitOther ==
    /\ InitQueue
    /\ InitRuntime
    /\ InitFeed
    /\ InitPrice
    /\ InitDecode
    /\ InitPoll

InitConsumer ==
    /\ pc = "start"
    /\ result = "none"
    /\ cancelled = FALSE
    /\ cancel_at = NotCancelled
    /\ queue = << >>
    /\ next_msg = 1
    /\ subscribers = 0
    /\ conn = 0
    /\ attempts = 0
    /\ fail_streak = 0
    /\ failed_before = 0
    /\ delays = << >>
    /\ attempted_after_cancel = FALSE
    /\ close_frames = 0
    /\ received = 0
    /\ delivered = 0
    /\ cur_frame = "none"
    /\ out_msg = NoMsg
    /\ num_message_since_last_heartbeat = 0
    /\ disconnects = 0
    /\ open_conns = 0

InitBackoff ==
    /\ \E p \in BackoffParams :
           backoff = ExponentialBackoff_new(p[1], p[2], p[3], p[4])
    /\ overflow_checks \in BOOLEAN
    /\ last_next = NoCall
    /\ calls = 0
    /\ resets = 0
    /\ panicked = FALSE
    /\ InitConsumer
    /\ InitOther

CallNext ==
    /\ ~panicked
    /\ calls < MaxCalls
    /\ LET r == ExponentialBackoff_next(backoff, overflow_checks)
       IN  /\ backoff' = r.self
           /\ last_next' = r.ret
           /\ panicked' = (r.ret = Panic)
    /\ calls' = calls + 1
    /\ UNCHANGED <<other_vars, overflow_checks, resets, consumer_vars>>

CallReset ==
    /\ ~panicked
    /\ resets < MaxResets
    /\ backoff' = ExponentialBackoff_reset(backoff)
    /\ last_next' = NoCall
    /\ calls' = 0
    /\ resets' = resets + 1
    /\ UNCHANGED <<other_vars, overflow_checks, panicked, consumer_vars>>

NextBackoff == CallNext \/ CallReset

SpecBackoff == InitBackoff /\ [][NextBackoff]_vars

----------------------------------------------------------------------------
(* The consumer task: WsConsumer::run and WsConsumer::stream, with the      *)
(* CoinbaseWsClient callback the runners install.  Every .await of the      *)
(* task is a position of pc; the transport, the clients writing to the      *)
(* outbound queue and the owner of the cancellation token act in between.   *)
(*                                                                          *)
(*   "start"       top of run()'s loop, before backoff.next()                *)
(*   "sleeping"    tokio::time::sleep(backoff_secs).await                    *)
(*   "connecting"  connect_async(&self.ws_url).await                         *)
(*   "on_connect"  callback.on_connect(..).await, first line of stream()     *)
(*   "select"      the tokio::select! of stream()'s loop                     *)
(*   "closing"     ws_stream.send(Message::Close(None)).await                *)
(*   "on_message"  callback.on_message(..).await                             *)
(*   "sending"     ws_stream.send(message).await                             *)
(*   "done"        run() has returned                                        *)

\* connections established
MaxConns == 2
\* frames read from one connection
MaxFrames == 2
\* messages the clients write
MaxWrites == 1
\* receivers subscribed to the broadcast channel
MaxSubscribers == 1

FrameKinds == {"text_ok", "text_bad", "close", "ping", "other"}

StreamingPcs == {"on_connect", "select", "closing", "on_message", "sending"}

\* try_send as it would be if a full queue made room by dropping its head
try_send_evicts_oldest(q, m) ==
    IF Len(q) < capacity
    THEN [ok |-> TRUE, queue |-> Append(q, m)]
    ELSE [ok |-> TRUE, queue |-> Append(Tail(q), m)]

\* mpsc::Sender::try_send, as WsClient::write and CoinbaseWsClient::write use
\* it: Ok and the message at the tail when there is room, Err otherwise.
try_send(q, m) ==
    IF Len(q) < capacity
    THEN [ok |-> TRUE, queue |-> Append(q, m)]
    ELSE [ok |-> FALSE, queue |-> q]

WsClient_write(q, m) == try_send(q, m)

CoinbaseWsClient_write(q, m) == try_send(q, m)

\* consumer() as it would be if it handed out a consumer without taking
\* the receiver out of the client
WsClient_consumer_keeps_receiver(recv) ==
    IF ~recv
    THEN [ok |-> FALSE, receiver |-> recv]
    ELSE [ok |-> TRUE, receiver |-> recv]

\* WsClient::consumer: Err while `receiver` is None; otherwise the receiver
\* is taken out of the client (self.receiver.take()) and moved into the
\* WsConsumer that is returned.
WsClient_consumer(recv) ==
    IF ~recv
    THEN [ok |-> FALSE, receiver |-> recv]
    ELSE [ok |-> TRUE, receiver |-> FALSE]

\* CoinbaseWsClient::subscribe, lines 32-37: the request is handed to
\* write(), whose result is dropped, and Ok(receiver) is returned.
\* [ok |-> subscribe returned Ok, enqueued |-> the request is in the queue]
subscribe(q) ==
    LET w == CoinbaseWsClient_write(q, [kind |-> "subscribe", id |-> 0])
    IN  [ok |-> TRUE, enqueued |-> w.ok, queue |-> w.queue]

CoinbaseWsClient_on_connect == TRUE

CoinbaseWsClient_on_disconnect == TRUE

CoinbaseWsClient_on_heartbeat == TRUE

\* on_message: [ok |-> the hook returned Ok, queue |-> the outbound queue,
\* disconnects |-> the calls of on_disconnect the hook made]
CoinbaseWsClient_on_message(frame, q, subs) ==
    CASE frame = "text_bad" -> [ok |-> FALSE, queue |-> q, disconnects |-> 0]
      [] frame = "text_ok"  ->
             [ok |-> subs > 0, queue |-> q, disconnects |-> 0]
      [] frame = "close"    ->
             [ok |-> CoinbaseWsClient_on_disconnect, queue |-> q,
              disconnects |-> 1]
      [] frame = "ping"     ->
             [ok |-> CoinbaseWsClient_write(q, [kind |-> "pong", id |-> 0]).ok,
              queue |-> CoinbaseWsClient_write(q, [kind |-> "pong", id |-> 0]).queue,
              disconnects |-> 0]
      [] OTHER              -> [ok |-> TRUE, queue |-> q, disconnects |-> 0]

\* stream() as it would be if the WebSocketStream outlived its return
WsStream_drop_leaks(n) == n

\* stream() returns: the WebSocketStream that was moved into it is dropped
WsStream_drop(n) == n - 1

\* run() as it would be if a failed stream() ended it with the error
AfterStream_err_terminates(stream_ok) ==
    /\ open_conns' = WsStream_drop(open_conns)
    /\ disconnects' = disconnects + 1
    /\  IF stream_ok
       THEN /\ pc' = "done"
            /\ result' = "ok"
            /\ UNCHANGED <<poll_vars, decode_vars, price_vars, attempts,
                           delays, failed_before>>
       ELSE /\ pc' = "done"
            /\ result' = "err_hook"
            /\ UNCHANGED <<poll_vars, decode_vars, price_vars, attempts,
                           delays, failed_before>>

\* run(), lines 57-69: what follows the return of stream()
AfterStream(stream_ok) ==
    /\ open_conns' = WsStream_drop(open_conns)
    /\ disconnects' = disconnects + 1
    /\ IF ~CoinbaseWsClient_on_disconnect
       THEN /\ pc' = "done"
            /\ result' = "err_hook"
            /\ UNCHANGED <<poll_vars, decode_vars, price_vars, attempts,
                           delays, failed_before>>
       ELSE IF stream_ok
       THEN /\ pc' = "done"
            /\ result' = "ok"
            /\ UNCHANGED <<poll_vars, decode_vars, price_vars, attempts,
                           delays, failed_before>>
       ELSE /\ pc' = "start"
            /\ result' = result
            /\ attempts' = 0
            /\ delays' = << >>
            /\ failed_before' = 0

\* stream() goes on to its next .await
StreamOn(to) ==
    /\ pc' = to
    /\ result' = result
    /\ UNCHANGED <<poll_vars, decode_vars, price_vars, attempts, delays,
                   failed_before, open_conns>>

\* A connection attempt starts: connect_async is called
StartAttempt ==
    /\ attempts' = attempts + 1
    /\ attempted_after_cancel' = (attempted_after_cancel \/ cancelled)

\* run(), lines 27-42: consult the sequencer
RunNext ==
    /\ pc = "start"
    /\ conn < MaxConns
    /\ LET r == ExponentialBackoff_next(backoff, overflow_checks)
       IN  /\ backoff' = r.self
           /\ last_next' = r.ret
           /\ calls' = calls + 1
           /\ disconnects' = 0
           /\ panicked' = (r.ret = Panic)
           /\ CASE r.ret = Exhausted ->
                     /\ pc' = "done"
                     /\ result' = "err_retries"
                     /\ UNCHANGED <<poll_vars, decode_vars, price_vars,
                                    attempts, attempted_after_cancel,
                                    delays>>
                [] r.ret = Panic ->
                     /\ pc' = "done"
                     /\ result' = "panic"
                     /\ UNCHANGED <<poll_vars, decode_vars, price_vars,
                                    attempts, attempted_after_cancel,
                                    delays>>
                [] OTHER ->
                     /\ delays' = Append(delays, r.ret.val)
                     /\ result' = result
                     /\ IF r.ret.val > 0
                        THEN /\ pc' = "sleeping"
                             /\ UNCHANGED <<poll_vars, decode_vars,
                                            price_vars, attempts,
                                            attempted_after_cancel>>
                        ELSE /\ pc' = "connecting"
                             /\ StartAttempt
    /\ UNCHANGED <<other_vars, overflow_checks, resets, cancelled, cancel_at,
                   queue, next_msg, subscribers, conn, fail_streak,
                   failed_before, close_frames, received, delivered,
                   cur_frame, out_msg, num_message_since_last_heartbeat,
                   open_conns>>

\* run(), lines 30-31 and 45: the sleep ends, connect_async is called
Wake ==
    /\ pc = "sleeping"
    /\ pc' = "connecting"
    /\ StartAttempt
    /\ UNCHANGED <<other_vars, backoff_vars, result, cancelled, cancel_at,
                   queue, next_msg, subscribers, conn, fail_streak,
                   failed_before, delays, close_frames, received, delivered,
                   cur_frame, out_msg, num_message_since_last_heartbeat,
                   disconnects, open_conns>>

\* The connection as it would be if stream() did not call on_connect
ConnectOk_without_on_connect ==
    /\ pc = "connecting"
    /\ backoff' = ExponentialBackoff_reset(backoff)
    /\ calls' = 0
    /\ resets' = resets + 1
    /\ last_next' = NoCall
    /\ conn' = conn + 1
    /\ open_conns' = open_conns + 1
    /\ disconnects' = 0
    /\ fail_streak' = 0
    /\ failed_before' = fail_streak
    /\ close_frames' = 0
    /\ received' = 0
    /\ delivered' = 0
    /\ num_message_since_last_heartbeat' = 0
    /\ pc' = "select"
    /\ UNCHANGED <<other_vars, overflow_checks, panicked, result, cancelled,
                   cancel_at, queue, next_msg, subscribers, attempts, delays,
                   attempted_after_cancel, cur_frame, out_msg>>

\* run(), lines 46-50 and 57, stream(), lines 81-84: connected
ConnectOk ==
    /\ pc = "connecting"
    /\ backoff' = ExponentialBackoff_reset(backoff)
    /\ calls' = 0
    /\ resets' = resets + 1
    /\ last_next' = NoCall
    /\ conn' = conn + 1
    /\ open_conns' = open_conns + 1
    /\ disconnects' = 0
    /\ fail_streak' = 0
    /\ failed_before' = fail_streak
    /\ close_frames' = 0
    /\ received' = 0
    /\ delivered' = 0
    /\ num_message_since_last_heartbeat' = 0
    /\ pc' = "on_connect"
    /\ UNCHANGED <<other_vars, overflow_checks, panicked, result, cancelled,
                   cancel_at, queue, next_msg, subscribers, attempts, delays,
                   attempted_after_cancel, cur_frame, out_msg>>

\* run(), lines 51-54: the attempt failed, `continue`
ConnectErr ==
    /\ pc = "connecting"
    /\ fail_streak' = fail_streak + 1
    /\ pc' = "start"
    /\ UNCHANGED <<other_vars, backoff_vars, result, cancelled, cancel_at,
                   queue, next_msg, subscribers, conn, attempts,
                   failed_before, delays, attempted_after_cancel,
                   close_frames, received, delivered, cur_frame, out_msg,
                   num_message_since_last_heartbeat, disconnects,
                   open_conns>>

\* stream(), line 81: `self.callback.on_connect(..).await?`
OnConnectReturn ==
    /\ pc = "on_connect"
    /\ IF CoinbaseWsClient_on_connect
       THEN StreamOn("select") /\ UNCHANGED disconnects
       ELSE AfterStream(FALSE)
    /\ UNCHANGED <<other_vars, backoff_vars, cancelled, cancel_at, queue,
                   next_msg, subscribers, conn, fail_streak,
                   attempted_after_cancel, close_frames, received, delivered,
                   cur_frame, out_msg, num_message_since_last_heartbeat>>

\* The select as it would be if its first branch did not wait for the token
SelectShutdown_unguarded ==
    /\ pc = "select"
    /\ pc' = "closing"
    /\ UNCHANGED <<other_vars, backoff_vars, result, cancelled, cancel_at,
                   queue, next_msg, subscribers, conn, attempts, fail_streak,
                   failed_before, delays, attempted_after_cancel,
                   close_frames, received, delivered, cur_frame, out_msg,
                   num_message_since_last_heartbeat, disconnects,
                   open_conns>>

\* stream(), lines 88-90: the cancellation branch wins the select
SelectShutdown ==
    /\ pc = "select"
    /\ cancelled
    /\ pc' = "closing"
    /\ UNCHANGED <<other_vars, backoff_vars, result, cancelled, cancel_at,
                   queue, next_msg, subscribers, conn, attempts, fail_streak,
                   failed_before, delays, attempted_after_cancel,
                   close_frames, received, delivered, cur_frame, out_msg,
                   num_message_since_last_heartbeat, disconnects,
                   open_conns>>

\* stream(), lines 90-93: the write of the close frame returns
CloseReturn ==
    /\ pc = "closing"
    /\ \E sent \in BOOLEAN :
           /\ close_frames' = IF sent THEN close_frames + 1 ELSE close_frames
           /\ AfterStream(sent)
    /\ UNCHANGED <<other_vars, backoff_vars, cancelled, cancel_at, queue,
                   next_msg, subscribers, conn, fail_streak,
                   attempted_after_cancel, received, delivered, cur_frame,
                   out_msg, num_message_since_last_heartbeat>>

\* The peer's close frame has been read on the current connection: the
\* hook for it is the only caller of on_disconnect inside stream()
PeerClosed == disconnects > 0

\* stream(), lines 96-105: a frame is read and handed to on_message.  The
\* close frame is the last item the transport yields: the reads after it
\* fail or find the stream ended (SelectReadError).
SelectFrame ==
    /\ pc = "select"
    /\ ~PeerClosed
    /\ received < MaxFrames
    /\ \E f \in FrameKinds : cur_frame' = f
    /\ received' = received + 1
    /\ num_message_since_last_heartbeat' = num_message_since_last_heartbeat + 1
    /\ delivered' = delivered + 1
    /\ pc' = "on_message"
    /\ UNCHANGED <<other_vars, backoff_vars, result, cancelled, cancel_at,
                   queue, next_msg, subscribers, conn, attempts, fail_streak,
                   failed_before, delays, attempted_after_cancel,
                   close_frames, out_msg, disconnects, open_conns>>

\* stream(), line 105: `self.callback.on_message(..).await?`
OnMessageReturn ==
    /\ pc = "on_message"
    /\ LET r == CoinbaseWsClient_on_message(cur_frame, queue, subscribers)
       IN  /\ queue' = r.queue
           /\ IF r.ok
              THEN /\ StreamOn("select")
                   /\ disconnects' = disconnects + r.disconnects
              ELSE AfterStream(FALSE)
    /\ cur_frame' = "none"
    /\ UNCHANGED <<other_vars, backoff_vars, cancelled, cancel_at, next_msg,
                   subscribers, conn, fail_streak, attempted_after_cancel,
                   close_frames, received, delivered, out_msg,
                   num_message_since_last_heartbeat>>

\* stream(), lines 107-114: the read fails, or the inbound stream has ended
SelectReadError ==
    /\ pc = "select"
    /\ AfterStream(FALSE)
    /\ UNCHANGED <<other_vars, backoff_vars, cancelled, cancel_at, queue,
                   next_msg, subscribers, conn, fail_streak,
                   attempted_after_cancel, close_frames, received, delivered,
                   cur_frame, out_msg, num_message_since_last_heartbeat>>

\* stream(), lines 118-122: a queued outbound message is taken.  recv()
\* yields None (lines 126-128) only when every Sender is gone; the callback
\* the consumer owns holds one (runner.rs:39-49), so that arm is never taken.
SelectOutbound ==
    /\ pc = "select"
    /\ queue # << >>
    /\ out_msg' = Head(queue)
    /\ queue' = Tail(queue)
    /\ pc' = "sending"
    /\ UNCHANGED <<other_vars, backoff_vars, result, cancelled, cancel_at,
                   next_msg, subscribers, conn, attempts, fail_streak,
                   failed_before, delays, attempted_after_cancel,
                   close_frames, received, delivered, cur_frame,
                   num_message_since_last_heartbeat, disconnects,
                   open_conns>>

\* The write as it would be if a message whose write failed were put back
SendReturn_requeues_failed ==
    /\ pc = "sending"
    /\ \E sent \in BOOLEAN :
           IF sent
           THEN StreamOn("select") /\ UNCHANGED <<disconnects, queue>>
           ELSE AfterStream(FALSE) /\ queue' = <<out_msg>> \o queue
    /\ out_msg' = NoMsg
    /\ UNCHANGED <<other_vars, backoff_vars, cancelled, cancel_at, next_msg,
                   subscribers, conn, fail_streak, attempted_after_cancel,
                   close_frames, received, delivered, cur_frame,
                   num_message_since_last_heartbeat>>

\* stream(), lines 122-124: the write of the outbound message returns
SendReturn ==
    /\ pc = "sending"
    /\ \E sent \in BOOLEAN :
           IF sent
           THEN StreamOn("select") /\ UNCHANGED disconnects
           ELSE AfterStream(FALSE)
    /\ out_msg' = NoMsg
    /\ UNCHANGED <<other_vars, backoff_vars, cancelled, cancel_at, queue,
                   next_msg, subscribers, conn, fail_streak,
                   attempted_after_cancel, close_frames, received, delivered,
                   cur_frame, num_message_since_last_heartbeat>>

\* The tick as it would be if the hook's error were propagated with `?`
SelectHeartbeat_err_propagates ==
    /\ pc = "select"
    /\ num_message_since_last_heartbeat' =
           IF num_message_since_last_heartbeat > 0 THEN 0
           ELSE num_message_since_last_heartbeat
    /\ \E hook_ok \in BOOLEAN :
           IF hook_ok
           THEN StreamOn("select") /\ UNCHANGED disconnects
           ELSE AfterStream(FALSE)
    /\ UNCHANGED <<other_vars, backoff_vars, cancelled, cancel_at, queue,
                   next_msg, subscribers, conn, fail_streak,
                   attempted_after_cancel, close_frames, received, delivered,
                   cur_frame, out_msg>>

\* stream(), lines 133-140: the heartbeat tick.  WsConsumer is generic in
\* its callback, so on_heartbeat may return Ok or Err (the Coinbase hook
\* returns Ok); the result is dropped by `let _ = ...`.
SelectHeartbeat ==
    /\ pc = "select"
    /\ \E hook_ok \in BOOLEAN : TRUE       \* `let _ = ...on_heartbeat()`
    /\ num_message_since_last_heartbeat' =
           IF num_message_since_last_heartbeat > 0 THEN 0
           ELSE num_message_since_last_heartbeat
    /\ UNCHANGED <<other_vars, backoff_vars, pc, result, cancelled,
                   cancel_at, queue, next_msg, subscribers, conn, attempts,
                   fail_streak, failed_before, delays,
                   attempted_after_cancel, close_frames, received, delivered,
                   cur_frame, out_msg, disconnects, open_conns>>

\* The owner of the token cancels it (CancellationToken::cancel)
Cancel ==
    /\ ~cancelled
    /\ pc # "done"
    /\ cancelled' = TRUE
    /\ cancel_at' = [pc |-> pc, conn |-> conn]
    /\ UNCHANGED <<other_vars, backoff_vars, pc, result, queue, next_msg,
                   subscribers, conn, attempts, fail_streak, failed_before,
                   delays, attempted_after_cancel, close_frames, received,
                   delivered, cur_frame, out_msg,
                   num_message_since_last_heartbeat, disconnects,
                   open_conns>>

\* A client writes a message: CoinbaseWsClient::write / WsClient::write
ClientWrite ==
    /\ next_msg <= MaxWrites
    /\ queue' = CoinbaseWsClient_write(queue, [kind |-> "text", id |-> next_msg]).queue
    /\ next_msg' = next_msg + 1
    /\ UNCHANGED <<other_vars, backoff_vars, pc, result, cancelled,
                   cancel_at, subscribers, conn, attempts, fail_streak,
                   failed_before, delays, attempted_after_cancel,
                   close_frames, received, delivered, cur_frame, out_msg,
                   num_message_since_last_heartbeat, disconnects,
                   open_conns>>

\* CoinbaseWsClient::subscribe: the request is written, the result of the
\* write is dropped, and a receiver of the broadcast channel is returned
CoinbaseWsClient_subscribe ==
    /\ subscribers < MaxSubscribers
    /\ queue' = CoinbaseWsClient_write(queue, [kind |-> "subscribe", id |-> 0]).queue
    /\ subscribers' = subscribers + 1
    /\ UNCHANGED <<other_vars, backoff_vars, pc, result, cancelled,
                   cancel_at, next_msg, conn, attempts, fail_streak,
                   failed_before, delays, attempted_after_cancel,
                   close_frames, received, delivered, cur_frame, out_msg,
                   num_message_since_last_heartbeat, disconnects,
                   open_conns>>

\* WsConsumer as the runners build it: backoff = ExponentialBackoff::default().
\* With 10 retries and delays up to 60 neither the counter nor the product
\* can overflow, so the build profile makes no difference here.
Init ==
    /\ backoff = ExponentialBackoff_default
    /\ overflow_checks = FALSE
    /\ last_next = NoCall
    /\ calls = 0
    /\ resets = 0
    /\ panicked = FALSE
    /\ InitConsumer
    /\ InitOther

Next ==
    \/ RunNext
    \/ Wake
    \/ ConnectOk
    \/ ConnectErr
    \/ OnConnectReturn
    \/ SelectShutdown
    \/ CloseReturn
    \/ SelectFrame
    \/ OnMessageReturn
    \/ SelectReadError
    \/ SelectOutbound
    \/ SendReturn
    \/ SelectHeartbeat
    \/ Cancel
    \/ ClientWrite
    \/ CoinbaseWsClient_subscribe

Spec == Init /\ [][Next]_vars

----------------------------------------------------------------------------
(* SpecQueue: the outbound queue alone.  Clients call write() and keep what *)
(* it returns; the consumer takes messages from the head (recv() in         *)
(* stream()'s select).  The capacity is the one handed to WsClient::new.    *)

\* capacities of the outbound queue
MaxCapacity == 3
\* calls of write() followed
MaxQueueWrites == 6
\* calls of consumer() followed
MaxConsumerCalls == 3

InitWriters ==
    /\ backoff = ExponentialBackoff_default
    /\ overflow_checks \in BOOLEAN
    /\ last_next = NoCall
    /\ calls = 0
    /\ resets = 0
    /\ panicked = FALSE
    /\ InitConsumer
    /\ InitRuntime
    /\ InitFeed
    /\ InitPrice
    /\ InitDecode
    /\ InitPoll
    /\ capacity \in 1..MaxCapacity
    /\ write_result = NoWrite
    /\ subscribe_result = NoSubscribe
    /\ receiver = TRUE
    /\ consumer_results = << >>

\* A client calls WsClient::write and looks at the result
WriteCall ==
    /\ next_msg <= MaxQueueWrites
    /\ LET r == WsClient_write(queue, [kind |-> "text", id |-> next_msg])
       IN  /\ queue' = r.queue
           /\ write_result' = IF r.ok THEN "ok" ELSE "err"
    /\ next_msg' = next_msg + 1
    /\ UNCHANGED <<poll_vars, decode_vars, price_vars, backoff_vars,
                   runtime_vars, feed_vars, capacity, subscribe_result,
                   receiver, consumer_results, pc, result, cancelled,
                   cancel_at, subscribers, conn, attempts, fail_streak,
                   failed_before, delays, attempted_after_cancel,
                   close_frames, received, delivered, cur_frame, out_msg,
                   num_message_since_last_heartbeat, disconnects,
                   open_conns>>

\* A client calls CoinbaseWsClient::subscribe and looks at the result
SubscribeCall ==
    /\ subscribers < MaxSubscribers
    /\ LET r == subscribe(queue)
       IN  /\ queue' = r.queue
           /\ subscribe_result' =
                  [ok |-> r.ok, enqueued |-> r.enqueued, called |-> TRUE]
    /\ subscribers' = subscribers + 1
    /\ UNCHANGED <<poll_vars, decode_vars, price_vars, backoff_vars,
                   runtime_vars, feed_vars, capacity, write_result, receiver,
                   consumer_results, pc, result, cancelled, cancel_at,
                   next_msg, conn, attempts, fail_streak, failed_before,
                   delays, attempted_after_cancel, close_frames, received,
                   delivered, cur_frame, out_msg,
                   num_message_since_last_heartbeat, disconnects,
                   open_conns>>

\* WsClient::consumer is called; the consumer it returns owns the receiver
ConsumerCall ==
    /\ Len(consumer_results) < MaxConsumerCalls
    /\ LET r == WsClient_consumer(receiver)
       IN  /\ receiver' = r.receiver
           /\ consumer_results' =
                  Append(consumer_results, IF r.ok THEN "ok" ELSE "err")
    /\ UNCHANGED <<poll_vars, decode_vars, price_vars, backoff_vars,
                   consumer_vars, runtime_vars, feed_vars, capacity,
                   write_result, subscribe_result>>

\* stream(), line 118: `self.receiver.recv()` yields the head of the queue
Recv ==
    /\ queue # << >>
    /\ queue' = Tail(queue)
    /\ UNCHANGED <<backoff_vars, other_vars, pc, result, cancelled,
                   cancel_at, next_msg, subscribers, conn, attempts,
                   fail_streak, failed_before, delays,
                   attempted_after_cancel, close_frames, received, delivered,
                   cur_frame, out_msg, num_message_since_last_heartbeat,
                   disconnects, open_conns>>

NextQueue == WriteCall \/ SubscribeCall \/ ConsumerCall \/ Recv

SpecQueue == InitWriters /\ [][NextQueue]_vars

----------------------------------------------------------------------------
(* SpecRuntime: the process root (runtime::run), the top-level runner       *)
(* (BotRunner::run, ArbitrageRunner::run) and the tasks the runner spawns.  *)
(* The root polls the runner's future inside its select and inside its      *)
(* bounded wait; the spawned tasks run on the runtime's worker threads.     *)
(*                                                                          *)
(*   root_pc    "select"   tokio::select! { run, sigterm, sigint }           *)
(*              "waiting"  timeout(SHUTDOWN_TIMEOUT, run.as_mut()).await    *)
(*              "exited"   block_on has returned or unwound                 *)
(*   runner_pc  "spawning" before and during the spawn loop                 *)
(*              "joining"  join_all(runner_tasks).await                     *)
(*              "returned" run() has returned runner_result                 *)
(*   task[i]    "unspawned", "running", "ok" (returned Ok), "err" (returned *)
(*              Err), "join_err" (panicked: the JoinHandle yields Err)      *)

\* const SHUTDOWN_TIMEOUT: Duration = Duration::from_secs(10)
SHUTDOWN_TIMEOUT == 10

Signals == {"SIGTERM", "SIGINT"}

Failed(i) == task[i] \in {"err", "join_err"}

Finished(i) == task[i] \in {"ok", "err", "join_err"}

\* The root is polling the runner's future
RootPolls == root_pc \in {"select", "waiting"}

\* join_all(runner_tasks) is ready: every JoinHandle has its output
JoinReady == runner_pc = "joining" /\ \A i \in Tasks : Finished(i)

\* The `for result in results` loop: the first Err in the order of the
\* handles, Ok when there is none
FirstErrInOrder ==
    IF \E i \in Tasks : Failed(i)
    THEN [tag |-> "err",
          task |-> CHOOSE i \in Tasks :
                       Failed(i) /\ \A j \in Tasks : Failed(j) => i <= j]
    ELSE [tag |-> "ok", task |-> 0]

\* The runner spawns its next task: consumer.spawn(child_token), then one
\* tokio::spawn per pool
RunnerSpawn ==
    /\ RootPolls
    /\ runner_pc = "spawning"
    /\ \E i \in Tasks :
           /\ task[i] = "unspawned"
           /\ \A j \in Tasks : j < i => task[j] # "unspawned"
           /\ task' = [task EXCEPT ![i] = "running"]
           /\ runner_pc' = IF i = NumPools + 1 THEN "joining" ELSE "spawning"
    /\ UNCHANGED <<poll_vars, decode_vars, price_vars, backoff_vars,
                   consumer_vars, queue_vars, feed_vars, root_pc,
                   root_outcome, shutdown_token, signal, grace_elapsed,
                   runner_result, first_failed>>

\* join_all completes and run() returns
RunnerJoin ==
    /\ RootPolls
    /\ JoinReady
    /\ runner_result' = FirstErrInOrder
    /\ runner_pc' = "returned"
    /\ UNCHANGED <<poll_vars, decode_vars, price_vars, backoff_vars,
                   consumer_vars, queue_vars, feed_vars, root_pc,
                   root_outcome, shutdown_token, signal, grace_elapsed, task,
                   first_failed>>

\* A task ends with an error: the consumer has exhausted its retries
\* (consumer.rs:34-40), an engine runner's run() has returned Err
TaskFails(i) ==
    /\ root_pc # "exited"
    /\ task[i] = "running"
    /\ task' = [task EXCEPT ![i] = "err"]
    /\ first_failed' = IF first_failed = 0 THEN i ELSE first_failed
    /\ UNCHANGED <<poll_vars, decode_vars, price_vars, backoff_vars,
                   consumer_vars, queue_vars, feed_vars, root_pc,
                   root_outcome, shutdown_token, signal, grace_elapsed,
                   runner_pc, runner_result>>

\* A task panics and its JoinHandle yields a JoinError
TaskPanics(i) ==
    /\ root_pc # "exited"
    /\ task[i] = "running"
    /\ task' = [task EXCEPT ![i] = "join_err"]
    /\ first_failed' = IF first_failed = 0 THEN i ELSE first_failed
    /\ UNCHANGED <<poll_vars, decode_vars, price_vars, backoff_vars,
                   consumer_vars, queue_vars, feed_vars, root_pc,
                   root_outcome, shutdown_token, signal, grace_elapsed,
                   runner_pc, runner_result>>

\* A task returns Ok.  The consumer does so only once its token, a child of
\* the root token, is cancelled; an engine runner may end at any time.
TaskReturnsOk(i) ==
    /\ root_pc # "exited"
    /\ task[i] = "running"
    /\ i = 1 => shutdown_token
    /\ task' = [task EXCEPT ![i] = "ok"]
    /\ UNCHANGED <<poll_vars, decode_vars, price_vars, backoff_vars,
                   consumer_vars, queue_vars, feed_vars, root_pc,
                   root_outcome, shutdown_token, signal, grace_elapsed,
                   runner_pc, runner_result, first_failed>>

\* runtime::run, lines 40-43 and 47-51: the runner's future completes in
\* the select; the root logs, cancels the token and polls the same future
\* again inside timeout(): a completed async block panics when polled.
RootRunnerCompletes ==
    /\ root_pc = "select"
    /\ runner_pc = "returned"
    /\ shutdown_token' = TRUE
    /\ root_outcome' = "panic"
    /\ root_pc' = "exited"
    /\ UNCHANGED <<poll_vars, decode_vars, price_vars, backoff_vars,
                   consumer_vars, queue_vars, feed_vars, signal,
                   grace_elapsed, runner_pc, runner_result, task,
                   first_failed>>

\* runtime::run, lines 44-48: a signal branch wins the select (the select
\* polls its branches in one go, so never in the middle of the spawn loop);
\* the root cancels the token and starts its bounded wait
RootSignal ==
    /\ root_pc = "select"
    /\ runner_pc # "returned"
    /\ runner_pc = "spawning" => task[1] = "unspawned"
    /\ \E sig \in Signals : signal' = sig
    /\ shutdown_token' = TRUE
    /\ grace_elapsed' = 0
    /\ root_pc' = "waiting"
    /\ UNCHANGED <<poll_vars, decode_vars, price_vars, backoff_vars,
                   consumer_vars, queue_vars, feed_vars, root_outcome,
                   runner_pc, runner_result, task, first_failed>>

\* One second of the grace period passes
Tick ==
    /\ root_pc = "waiting"
    /\ grace_elapsed < SHUTDOWN_TIMEOUT
    /\ grace_elapsed' = grace_elapsed + 1
    /\ UNCHANGED <<poll_vars, decode_vars, price_vars, backoff_vars,
                   consumer_vars, queue_vars, feed_vars, root_pc,
                   root_outcome, shutdown_token, signal, runner_pc,
                   runner_result, task, first_failed>>

\* runtime::run, lines 51-53: the runner returned within the grace period
RootRunnerReturned ==
    /\ root_pc = "waiting"
    /\ runner_pc = "returned"
    /\ root_outcome' = IF runner_result.tag = "ok" THEN "clean"
                       ELSE "runner_error"
    /\ root_pc' = "exited"
    /\ UNCHANGED <<poll_vars, decode_vars, price_vars, backoff_vars,
                   consumer_vars, queue_vars, feed_vars, shutdown_token,
                   signal, grace_elapsed, runner_pc, runner_result, task,
                   first_failed>>

\* timeout() as it would be if the root simply awaited the runner
RootTimeout_waits_for_runner ==
    /\ root_pc = "waiting"
    /\ grace_elapsed = SHUTDOWN_TIMEOUT
    /\ runner_pc = "returned"
    /\ root_outcome' = "timeout"
    /\ root_pc' = "exited"
    /\ UNCHANGED <<poll_vars, decode_vars, price_vars, backoff_vars,
                   consumer_vars, queue_vars, feed_vars, shutdown_token,
                   signal, grace_elapsed, runner_pc, runner_result, task,
                   first_failed>>

\* runtime::run, lines 51 and 54-59: the grace period is over and the
\* runner's future is still pending (timeout() polls it first)
RootTimeout ==
    /\ root_pc = "waiting"
    /\ grace_elapsed = SHUTDOWN_TIMEOUT
    /\ runner_pc # "returned"
    /\ runner_pc # "spawning"
    /\ ~JoinReady
    /\ root_outcome' = "timeout"
    /\ root_pc' = "exited"
    /\ UNCHANGED <<poll_vars, decode_vars, price_vars, backoff_vars,
                   consumer_vars, queue_vars, feed_vars, shutdown_token,
                   signal, grace_elapsed, runner_pc, runner_result, task,
                   first_failed>>

InitRoot ==
    /\ backoff = ExponentialBackoff_default
    /\ overflow_checks = FALSE
    /\ last_next = NoCall
    /\ calls = 0
    /\ resets = 0
    /\ panicked = FALSE
    /\ InitConsumer
    /\ InitQueue
    /\ InitRuntime
    /\ InitFeed
    /\ InitPrice
    /\ InitDecode
    /\ InitPoll

NextRuntime ==
    \/ RunnerSpawn
    \/ RunnerJoin
    \/ \E i \in Tasks : TaskFails(i)
    \/ \E i \in Tasks : TaskPanics(i)
    \/ \E i \in Tasks : TaskReturnsOk(i)
    \/ RootRunnerCompletes
    \/ RootSignal
    \/ Tick
    \/ RootRunnerReturned
    \/ RootTimeout

\* Time passes, and the root and the runner are polled whenever they can
\* make a step; nothing obliges a task to end or a signal to arrive.
SpecRuntime ==
    /\ InitRoot
    /\ [][NextRuntime]_vars
    /\ WF_vars(Tick)
    /\ WF_vars(RunnerSpawn)
    /\ WF_vars(RunnerJoin)
    /\ WF_vars(RootRunnerCompletes)
    /\ WF_vars(RootRunnerReturned)
    /\ WF_vars(RootTimeout)

----------------------------------------------------------------------------
(* SpecFeed: the path of a decoded message from the streaming callback to   *)
(* an engine.  on_message puts the message on the broadcast channel; the    *)
(* price feed collector's stream reads the channel through its receiver,    *)
(* keeps the tickers of its symbol and turns them into events; the pool     *)
(* feed collector's stream turns pool updates into events.  The engine      *)
(* runner (crates/core/src/engine.rs) forwards each collector's events into *)
(* one bounded event channel and hands them to the engine in arrival order. *)

\* messages the callback broadcasts
MaxMessages == 4
\* slots of the broadcast channel, broadcast::channel(n)
BufferSlots == 2
\* updates the pool source produces
MaxPoolUpdates == 1
\* capacity of the engine runner's event channel
EventCapacity == 1

MessageKinds == {"ticker_own", "ticker_other", "heartbeat"}

Receivers == IF rx_next = 0 THEN 0 ELSE 1

\* broadcast::Sender::send: Err, and nothing stored, when no receiver is
\* alive; otherwise the value takes the next slot and send returns at once,
\* whatever the receivers have read.
broadcast_send(buf, receivers, m) ==
    IF receivers = 0
    THEN [ok |-> FALSE, buf |-> buf]
    ELSE [ok |-> TRUE, buf |-> Append(buf, m)]

\* recv as it would be if it read the newest value first
broadcast_recv_newest_first(buf, next) ==
    IF next > Len(buf)
    THEN [tag |-> "empty", next |-> next, id |-> 0]
    ELSE [tag |-> "ok", next |-> next + 1, id |-> Len(buf)]

\* broadcast::Receiver::recv, as BroadcastStream polls it: nothing at the
\* tail; Lagged when the value at `next` has been overwritten (the channel
\* keeps the last BufferSlots values), and the receiver moves to the oldest
\* value kept; otherwise the value at `next`.
broadcast_recv(buf, next) ==
    IF next > Len(buf)
    THEN [tag |-> "empty", next |-> next, id |-> 0]
    ELSE IF Len(buf) - next >= BufferSlots
    THEN [tag |-> "lagged", next |-> Len(buf) - BufferSlots + 1, id |-> 0]
    ELSE [tag |-> "ok", next |-> next + 1, id |-> next]

\* process_coinbase_message as it would be if a heartbeat gave a Ticker too
process_coinbase_message_any_channel(kind) ==
    kind \in {"ticker_own", "ticker_other", "heartbeat"}

\* process_coinbase_message: Some(ticker) for a ticker message
process_coinbase_message(kind) == kind \in {"ticker_own", "ticker_other"}

\* The symbol of the engine's pool: BotRunner::run gives pool.symbol_owned()
\* to the strategy and to the price-feed collector, and pool.symbol to the
\* Pool that subscribe_pool_updates tags its updates with
pool_symbol == "own"

\* The symbol of the Ticker a broadcast message is converted to
Ticker_symbol(kind) ==
    IF kind = "ticker_own" THEN pool_symbol
    ELSE IF kind = "ticker_other" THEN "other"
    ELSE "none"

\* The symbol an InternalEvent carries: TickerUpdate(ticker) has the
\* ticker's, PoolPriceUpdate has the symbol of the pool that was subscribed
InternalEvent_symbol(event, buf) ==
    IF event.src = "price" THEN Ticker_symbol(buf[event.id]) ELSE pool_symbol

\* LoggingBotStrategy::handle_internal_event: both arms are guarded by
\* `symbol == self.symbol`, anything else is unreachable!()
handle_internal_event(event, buf) ==
    IF InternalEvent_symbol(event, buf) = pool_symbol
    THEN "handled"
    ELSE "unreachable"

\* PriceFeedCollector_event as it would be without the filter on the symbol
PriceFeedCollector_event_unfiltered(r, buf) ==
    IF r.tag = "ok" /\ process_coinbase_message(buf[r.id])
    THEN [src |-> "price", id |-> r.id]
    ELSE NoEvent

\* create_ticker_stream's filter_map, then subscribe_event_stream's: the
\* event a received item becomes, NoEvent when it is filtered out (a Lagged
\* error, a message that is no ticker, a ticker of another symbol).
PriceFeedCollector_event(r, buf) ==
    IF r.tag = "ok" /\ process_coinbase_message(buf[r.id])
                    /\ buf[r.id] = "ticker_own"
    THEN [src |-> "price", id |-> r.id]
    ELSE NoEvent

\* CoinbaseWsClient::on_message, lines 79-83: a decoded message is broadcast
Broadcast ==
    /\ Len(bcast_sent) < MaxMessages
    /\ \E m \in MessageKinds :
           bcast_sent' = broadcast_send(bcast_sent, Receivers, m).buf
    /\ UNCHANGED <<poll_vars, decode_vars, price_vars, backoff_vars,
                   consumer_vars, queue_vars, runtime_vars, rx_next, rx_from,
                   collector, held, pool_next, events, processed,
                   unsub_result>>

\* PriceFeedCollector::subscribe_event_stream: subscribe_price_feed writes
\* the request (result dropped) and takes a receiver of the channel
PriceFeedCollector_subscribe_event_stream ==
    /\ collector["price"] = "new"
    /\ queue' = CoinbaseWsClient_write(queue, [kind |-> "subscribe", id |-> 0]).queue
    /\ rx_next' = Len(bcast_sent) + 1
    /\ rx_from' = Len(bcast_sent) + 1
    /\ collector' = [collector EXCEPT !["price"] = "live"]
    /\ UNCHANGED <<poll_vars, decode_vars, price_vars, backoff_vars,
                   queue_vars, runtime_vars, pc, result, cancelled,
                   cancel_at, next_msg, subscribers, conn, attempts,
                   fail_streak, failed_before, delays,
                   attempted_after_cancel, close_frames, received, delivered,
                   cur_frame, out_msg, num_message_since_last_heartbeat,
                   bcast_sent, held, pool_next, events, processed,
                   unsub_result, disconnects, open_conns>>

\* PoolFeedCollector::subscribe_event_stream
PoolFeedCollector_subscribe_event_stream ==
    /\ collector["pool"] = "new"
    /\ collector' = [collector EXCEPT !["pool"] = "live"]
    /\ UNCHANGED <<poll_vars, decode_vars, price_vars, backoff_vars,
                   consumer_vars, queue_vars, runtime_vars, bcast_sent,
                   rx_next, rx_from, held, pool_next, events, processed,
                   unsub_result>>

\* The price feed collector's stream is polled and has an item
PricePoll ==
    /\ collector["price"] = "live"
    /\ held["price"] = NoEvent
    /\ LET r == broadcast_recv(bcast_sent, rx_next)
       IN  /\ r.tag # "empty"
           /\ rx_next' = r.next
           /\ held' = [held EXCEPT
                          !["price"] = PriceFeedCollector_event(r, bcast_sent)]
    /\ UNCHANGED <<poll_vars, decode_vars, price_vars, backoff_vars,
                   consumer_vars, queue_vars, runtime_vars, bcast_sent,
                   rx_from, collector, pool_next, events, processed,
                   unsub_result>>

\* The pool feed collector's stream is polled and has an update; an update
\* whose price does not parse is filtered out (subscribe_pool_updates)
PoolPoll ==
    /\ collector["pool"] = "live"
    /\ held["pool"] = NoEvent
    /\ pool_next < MaxPoolUpdates
    /\ pool_next' = pool_next + 1
    /\ \E parsed \in BOOLEAN :
           held' = [held EXCEPT
                       !["pool"] = IF parsed
                                   THEN [src |-> "pool", id |-> pool_next + 1]
                                   ELSE NoEvent]
    /\ UNCHANGED <<poll_vars, decode_vars, price_vars, backoff_vars,
                   consumer_vars, queue_vars, runtime_vars, bcast_sent,
                   rx_next, rx_from, collector, events, processed,
                   unsub_result>>

\* The collector's task puts its event on the event channel; it is
\* suspended while the channel is full
CollectorSend(c) ==
    /\ held[c] # NoEvent
    /\ Len(events) < EventCapacity
    /\ events' = Append(events, held[c])
    /\ held' = [held EXCEPT ![c] = NoEvent]
    /\ UNCHANGED <<poll_vars, decode_vars, price_vars, backoff_vars,
                   consumer_vars, queue_vars, runtime_vars, bcast_sent,
                   rx_next, rx_from, collector, pool_next, processed,
                   unsub_result>>

\* The dispatch loop takes the oldest event and gives it to the engine
Dispatch ==
    /\ events # << >>
    /\ processed' = Append(processed, Head(events))
    /\ events' = Tail(events)
    /\ UNCHANGED <<poll_vars, decode_vars, price_vars, backoff_vars,
                   consumer_vars, queue_vars, runtime_vars, bcast_sent,
                   rx_next, rx_from, collector, held, pool_next,
                   unsub_result>>

\* A collector's stream is dropped, and with it what it owns (the price
\* feed stream owns the receiver).  The stream borrows the collector
\* mutably, so nothing else can be called on the collector before this.
StreamDrop(c) ==
    /\ collector[c] = "live"
    /\ collector' = [collector EXCEPT ![c] = "dropped"]
    /\ held' = [held EXCEPT ![c] = NoEvent]
    /\ rx_next' = IF c = "price" THEN 0 ELSE rx_next
    /\ UNCHANGED <<poll_vars, decode_vars, price_vars, backoff_vars,
                   consumer_vars, queue_vars, runtime_vars, bcast_sent,
                   rx_from, pool_next, events, processed, unsub_result>>

\* PriceFeedCollector::unsubscribe_event_stream: `todo!()`
PriceFeedCollector_unsubscribe_event_stream ==
    /\ collector["price"] # "live"
    /\ unsub_result["price"] = "none"
    /\ unsub_result' = [unsub_result EXCEPT !["price"] = "panic"]
    /\ UNCHANGED <<poll_vars, decode_vars, price_vars, backoff_vars,
                   consumer_vars, queue_vars, runtime_vars, bcast_sent,
                   rx_next, rx_from, collector, held, pool_next, events,
                   processed>>

\* PoolFeedCollector::unsubscribe_event_stream: `Ok(())`
PoolFeedCollector_unsubscribe_event_stream ==
    /\ collector["pool"] # "live"
    /\ unsub_result["pool"] = "none"
    /\ unsub_result' = [unsub_result EXCEPT !["pool"] = "ok"]
    /\ UNCHANGED <<poll_vars, decode_vars, price_vars, backoff_vars,
                   consumer_vars, queue_vars, runtime_vars, bcast_sent,
                   rx_next, rx_from, collector, held, pool_next, events,
                   processed>>

InitCollectors ==
    /\ backoff = ExponentialBackoff_default
    /\ overflow_checks = FALSE
    /\ last_next = NoCall
    /\ calls = 0
    /\ resets = 0
    /\ panicked = FALSE
    /\ InitConsumer
    /\ InitQueue
    /\ InitRuntime
    /\ InitFeed
    /\ InitPrice
    /\ InitDecode
    /\ InitPoll

NextFeed ==
    \/ Broadcast
    \/ PriceFeedCollector_subscribe_event_stream
    \/ PoolFeedCollector_subscribe_event_stream
    \/ PricePoll
    \/ PoolPoll
    \/ \E c \in Sources : CollectorSend(c)
    \/ Dispatch
    \/ \E c \in Sources : StreamDrop(c)
    \/ PriceFeedCollector_unsubscribe_event_stream
    \/ PoolFeedCollector_unsubscribe_event_stream

SpecFeed == InitCollectors /\ [][NextFeed]_vars

----------------------------------------------------------------------------
(* SpecPrice: the price engine, SpotPrice of uniswap_v4/models.rs.  The    *)
(* arguments are drawn from SqrtRatios, Decimals and BOOLEAN; a SpotPrice  *)
(* is built from them and its adjusted price is computed.                  *)

\* Values of sqrt_ratio_x96 (a U160): 0, 2^96 (price 1), 1, 2^97, 3 * 2^95,
\* 25 * 2^90 and 2^159
SqrtRatios ==
    { Zero, Val(FALSE, 96, 0, 0), One, Val(FALSE, 97, 0, 0),
      Val(FALSE, 95, 1, 0), Val(FALSE, 90, 0, 2), Val(FALSE, 159, 0, 0) }

\* Values of token_0_decimals and token_1_decimals (u8)
Decimals == {0, 6, 18, 153, 154}

PanicPrice == [tag |-> "panic"]

\* SpotPrice::new_from_sqrt_ratio_x96
new_from_sqrt_ratio_x96(sqrt_ratio, d0, d1, inv, checks) ==
    LET ratio_x192 == I512_pow2(sqrt_ratio)
        scale_0 == I512_pow10(d0, checks)
        scale_1 == I512_pow10(d1, checks)
    IN  IF scale_0.tag = "panic" \/ scale_1.tag = "panic"
        THEN PanicPrice
        ELSE [tag |-> "ok",
              numerator |-> IF inv THEN ratio_x192 ELSE Q192,
              denominator |-> IF inv THEN Q192 ELSE ratio_x192,
              scale |-> D512_div(
                            D512_from_parts(scale_0.bits, scale_0.negative),
                            D512_from_parts(scale_1.bits, scale_1.negative))]

\* SpotPrice::to_decimal: numerator and denominator are never negative
to_decimal(self) ==
    D512_div(D512_from_parts(self.numerator, FALSE),
             D512_from_parts(self.denominator, FALSE))

\* SpotPrice::adjsusted_to_decimal
adjsusted_to_decimal(self) == D512_mul(to_decimal(self), self.scale)

\* PoolSlotData::new, line 84: the SpotPrice is built
PriceNew ==
    /\ price_pc = "input"
    /\ LET sp == new_from_sqrt_ratio_x96(sqrt_ratio_x96, token_0_decimals,
                                         token_1_decimals, invert,
                                         overflow_checks)
       IN  /\ spot_price' = sp
           /\ price_pc' = IF sp = PanicPrice THEN "panic" ELSE "built"
    /\ UNCHANGED <<poll_vars, decode_vars, backoff_vars, consumer_vars,
                   queue_vars, runtime_vars, feed_vars, sqrt_ratio_x96,
                   token_0_decimals, token_1_decimals, invert,
                   adjusted_price>>

\* to_fixed, line 199: the adjusted price of the SpotPrice is computed
PriceAdjust ==
    /\ price_pc = "built"
    /\ adjusted_price' = adjsusted_to_decimal(spot_price)
    /\ price_pc' = "priced"
    /\ UNCHANGED <<poll_vars, decode_vars, backoff_vars, consumer_vars,
                   queue_vars, runtime_vars, feed_vars, sqrt_ratio_x96,
                   token_0_decimals, token_1_decimals, invert, spot_price>>

InitPrices ==
    /\ backoff = ExponentialBackoff_default
    /\ overflow_checks \in BOOLEAN
    /\ last_next = NoCall
    /\ calls = 0
    /\ resets = 0
    /\ panicked = FALSE
    /\ InitConsumer
    /\ InitQueue
    /\ InitRuntime
    /\ InitFeed
    /\ InitDecode
    /\ InitPoll
    /\ sqrt_ratio_x96 \in SqrtRatios
    /\ token_0_decimals \in Decimals
    /\ token_1_decimals \in Decimals
    /\ invert \in BOOLEAN
    /\ price_pc = "input"
    /\ spot_price = NoPrice
    /\ adjusted_price = NoPrice

NextPrice == PriceNew \/ PriceAdjust

SpecPrice == InitPrices /\ [][NextPrice]_vars

----------------------------------------------------------------------------
(* SpecDecode: the decoding of inbound text frames (the serde derives of   *)
(* coinbase/models.rs, called by CoinbaseWsClient::on_message) and the     *)
(* ticker stream that reads the decoded messages (CoinbaseMessageProcessor *)
(* in bot/src/engine/price_feed.rs).                                       *)
(*                                                                         *)
(* A frame is a JSON object: `type` is the value of its "type" field       *)
(* ("absent" when it has none), `body` names the struct whose fields the   *)
(* object carries ("none" when it carries those of no struct), `product`   *)
(* is its product_id.                                                      *)

\* text frames followed
MaxTextFrames == 2

FrameTypes == {"ticker", "heartbeat", "subscriptions", "error", "absent"}

FrameBodies == {"ticker", "heartbeat", "subscriptions", "none"}

Products == {"own", "other"}

TextFrames ==
    [type : FrameTypes, body : FrameBodies, product : Products]

DecodeErr == [ok |-> FALSE, outer |-> "none", inner |-> "none",
              product |-> "none"]

DecodeOk(outer, inner, product) ==
    [ok |-> TRUE, outer |-> outer, inner |-> inner, product |-> product]

\* #[serde(tag = "type", rename_all = "lowercase")] enum
\* CoinbaseChannelMessage { Ticker(..), Heartbeat(..) }: the variant is
\* chosen by the tag, then the variant's struct is read from the object
CoinbaseChannelMessage_deserialize(f) ==
    CASE f.type = "ticker" /\ f.body = "ticker" ->
             DecodeOk("ChannelMessage", "Ticker", f.product)
      [] f.type = "heartbeat" /\ f.body = "heartbeat" ->
             DecodeOk("ChannelMessage", "Heartbeat", f.product)
      [] OTHER -> DecodeErr

\* #[serde(tag = "type", rename_all = "lowercase")] enum
\* CoinbaseResponse { Subscriptions(..) }
CoinbaseResponse_deserialize(f) ==
    IF f.type = "subscriptions" /\ f.body = "subscriptions"
    THEN DecodeOk("Response", "Subscriptions", "none")
    ELSE DecodeErr

\* #[serde(untagged)] enum CoinbaseMessage { ChannelMessage(..),
\* Response(..) }: the variants are tried in order, the first that reads
\* the object wins, and the decoding fails when none does
CoinbaseMessage_deserialize(f) ==
    IF CoinbaseChannelMessage_deserialize(f).ok
    THEN CoinbaseChannelMessage_deserialize(f)
    ELSE CoinbaseResponse_deserialize(f)

\* The kind of a decoded message, in the terms of MessageKinds
KindOf(m) ==
    CASE m.inner = "Ticker" /\ m.product = "own" -> "ticker_own"
      [] m.inner = "Ticker" -> "ticker_other"
      [] m.inner = "Heartbeat" -> "heartbeat"
      [] OTHER -> "subscriptions"

\* CoinbaseWsClient::on_message, lines 67-78: a text frame is decoded
OnTextFrame ==
    /\ Len(text_frames) < MaxTextFrames
    /\ \E f \in TextFrames :
           /\ text_frames' = Append(text_frames, f)
           /\ decoded' = Append(decoded, CoinbaseMessage_deserialize(f))
    /\ UNCHANGED <<poll_vars, backoff_vars, consumer_vars, queue_vars,
                   runtime_vars, feed_vars, price_vars, polled,
                   ticker_events>>

\* create_ticker_stream's filter_map on the next message: a frame that
\* failed to decode was never broadcast (on_message returned Err)
TickerStreamPoll ==
    /\ polled < Len(decoded)
    /\ polled' = polled + 1
    /\ LET m == decoded[polled + 1]
       IN  ticker_events' =
               IF m.ok /\ process_coinbase_message(KindOf(m))
               THEN Append(ticker_events,
                           [frame |-> polled + 1, product |-> m.product])
               ELSE ticker_events
    /\ UNCHANGED <<poll_vars, backoff_vars, consumer_vars, queue_vars,
                   runtime_vars, feed_vars, price_vars, text_frames,
                   decoded>>

InitFrames ==
    /\ backoff = ExponentialBackoff_default
    /\ overflow_checks = FALSE
    /\ last_next = NoCall
    /\ calls = 0
    /\ resets = 0
    /\ panicked = FALSE
    /\ InitConsumer
    /\ InitOther

NextDecode == OnTextFrame \/ TickerStreamPoll

SpecDecode == InitFrames /\ [][NextDecode]_vars

----------------------------------------------------------------------------
(* SpecPoll: the stream that watches a pool, watch_pool of                 *)
(* uniswap_v4/state.rs, as subscribe_pool_updates (bot/src/engine/pool.rs) *)
(* builds it for a configured pool.  stream::unfold calls the closure for  *)
(* each item: the closure waits for the timer, reads slot0 and returns     *)
(* Some((data, state)) or None; unfold ends the stream on None.            *)

\* polls of the pool followed
MaxPolls == 3

\* Decimal counts of the configured tokens (TokenConfig.decimals)
PoolDecimals == {6, 8, 18}

Pools ==
    [token_0_decimals : PoolDecimals, token_1_decimals : PoolDecimals,
     invert : BOOLEAN]

\* Values of sqrtPriceX96 the contract returns
PolledRatios == {Val(FALSE, 96, 0, 0), Val(FALSE, 95, 1, 0)}

\* PoolSlotData::new: the spot price is built from the decimals it is given
PoolSlotData_new(sqrt_price_x96, d0, d1, inv) ==
    [sqrt_price_x96 |-> sqrt_price_x96,
     spot_price |-> new_from_sqrt_ratio_x96(sqrt_price_x96, d0, d1, inv,
                                            overflow_checks)]

\* watch_pool's closure, lines 100-122: getSlot0 returns Ok and the closure
\* returns Some with the data; the stream yields it (subscribe_pool_updates
\* turns it into the price of a PoolPriceUpdate, pool.rs:51-62)
WatchPoolOk ==
    /\ watch_pc = "polling"
    /\ Len(poll_results) < MaxPolls
    /\ poll_results' = Append(poll_results, "ok")
    /\ \E sqrt \in PolledRatios :
           slot_data' =
               Append(slot_data,
                      [poll |-> Len(poll_results) + 1,
                       data |-> PoolSlotData_new(sqrt, 18, 6, pool.invert)])
    /\ UNCHANGED <<backoff_vars, consumer_vars, queue_vars, runtime_vars,
                   feed_vars, price_vars, decode_vars, pool, watch_pc>>

\* watch_pool's closure, lines 123-132: getSlot0 returns Err and the
\* closure returns None, on which unfold ends the stream
WatchPoolErr ==
    /\ watch_pc = "polling"
    /\ Len(poll_results) < MaxPolls
    /\ poll_results' = Append(poll_results, "err")
    /\ watch_pc' = "ended"
    /\ UNCHANGED <<backoff_vars, consumer_vars, queue_vars, runtime_vars,
                   feed_vars, price_vars, decode_vars, pool, slot_data>>

InitPolls ==
    /\ backoff = ExponentialBackoff_default
    /\ overflow_checks = FALSE
    /\ last_next = NoCall
    /\ calls = 0
    /\ resets = 0
    /\ panicked = FALSE
    /\ InitConsumer
    /\ InitQueue
    /\ InitRuntime
    /\ InitFeed
    /\ InitPrice
    /\ InitDecode
    /\ pool \in Pools
    /\ watch_pc = "polling"
    /\ poll_results = << >>
    /\ slot_data = << >>

NextPoll == WatchPoolOk \/ WatchPoolErr

SpecPoll == InitPolls /\ [][NextPoll]_vars

----------------------------------------------------------------------------
(* Claims about the consumer, checked under Spec.                           *)

\* The consumer is in stream()'s loop, not yet shutting down
Streaming == pc \in {"select", "on_message", "sending"}

\* C1: when the token is cancelled while the consumer is Streaming, run()
\* returns Ok, on the connection that was live at the cancellation, with
\* exactly one close frame written on it.
C1_CancelWhileStreamingClosesOnce ==
    (pc = "done" /\ cancel_at.pc \in {"select", "on_message", "sending"}) =>
        /\ result = "ok"
        /\ conn = cancel_at.conn
        /\ close_frames = 1

\* C2: once the token is cancelled the consumer starts no further
\* connection attempt.
C2_NoAttemptAfterCancel == ~attempted_after_cancel

\* C3: a cancellation that arrives while the consumer waits out a backoff
\* delay, attempts a connection, or is inside an outbound transport write or
\* a message hook ends run() with success, never with another result.
C3_CancelObservedAtEverySuspension ==
    (pc = "done" /\ cancel_at.pc \in
                        {"sleeping", "connecting", "sending", "on_message"}) =>
        result = "ok"

\* C4: run() returns the retries-exhausted error exactly when N = max_retries
\* consecutive connection attempts have failed (counted from the start or
\* from the last successful connection): the streak never passes N, an
\* attempt is in progress only below N, the error is returned at N and only
\* at N, and a successful connection restores the full budget.
C4_RetriesExhaustedAfterN ==
    /\ backoff.retries > 0
    /\ fail_streak <= backoff.retries
    /\ pc \in {"sleeping", "connecting"} => fail_streak < backoff.retries
    /\ result = "err_retries" => (pc = "done" /\ fail_streak = backoff.retries)
    /\ fail_streak = backoff.retries =>
           /\ pc \in {"start", "done"}
           /\ pc = "done" => result = "err_retries"
           /\ get_iteration_count(backoff) = backoff.retries
    /\ pc \in StreamingPcs =>
           (fail_streak = 0 /\ get_iteration_count(backoff) = 0)
    /\ pc = "start" => get_iteration_count(backoff) = fail_streak

C4_Witness ==
    /\ result = "err_retries"
    /\ conn = 1
    /\ fail_streak = backoff.retries

\* C5: when the first two connection attempts fail and the third succeeds,
\* the consumer has made exactly three attempts, the delays it got before
\* them are strictly increasing, the sequencer has been reset (its attempt
\* counter is 0 again), and every frame read on the connection has been
\* handed to on_message.
C5_ThirdAttemptSucceeds ==
    (conn = 1 /\ failed_before = 2 /\ pc \in StreamingPcs) =>
        /\ attempts = 3
        /\ Len(delays) = 3
        /\ delays[1] > 0
        /\ delays[1] < delays[2]
        /\ delays[2] < delays[3]
        /\ get_iteration_count(backoff) = 0
        /\ backoff = ExponentialBackoff_reset(backoff)
        /\ delivered = received

C5_Witness ==
    /\ conn = 1
    /\ failed_before = 2
    /\ pc = "select"
    /\ received = 2
    /\ delivered = 2

\* C13: an inbound text frame that fails to parse is skipped: when
\* on_message returns from it the consumer is back in stream()'s select on
\* the same connection, and run() has not returned.
C13_BadFrameSkipped ==
    [][(pc = "on_message" /\ cur_frame = "text_bad" /\ pc' # pc) =>
           (pc' = "select" /\ conn' = conn /\ result' = result)]_vars

\* C14: while Streaming, a failed or ended transport read (the select is
\* left for a position outside stream()) and a failed outbound transport
\* write end the connection without ending run(): run() is back at the top
\* of its loop with no result and the full retry budget, and its next step
\* from there is a connection attempt.
C14_TransportErrorRetries ==
    /\ [][((pc = "select" /\ pc' \notin StreamingPcs)
              \/ (pc = "sending" /\ pc' \notin StreamingPcs)) =>
             /\ pc' = "start"
             /\ result' = "none"
             /\ get_iteration_count(backoff') = 0]_vars
    /\ [][(pc = "start" /\ conn > 0 /\ fail_streak = 0 /\ pc' # pc) =>
             (pc' \in {"sleeping", "connecting"} /\ result' = "none")]_vars

C14_Witness ==
    /\ conn = 1
    /\ pc = "connecting"
    /\ attempts = 1
    /\ received = 0
    /\ next_msg = 1
    /\ subscribers = 0
    /\ ~cancelled
    /\ result = "none"

\* C15: run() returns Ok only after the token was cancelled, and only from
\* the write of the close frame; no other step produces a success result.
C15_CancellationSoleCleanExit ==
    /\ [](result = "ok" => (cancelled /\ pc = "done"))
    /\ [][(result' = "ok" /\ result # "ok") =>
             (pc = "closing" /\ cancelled /\ close_frames' = close_frames + 1)]_vars

C15_Witness ==
    /\ result = "ok"
    /\ cancelled
    /\ close_frames = 1
    /\ received > 0

----------------------------------------------------------------------------
(* Claims about the outbound queue, checked under SpecQueue.                *)

\* C12: write() never blocks (a call is always one step that returns); on a
\* queue holding its full capacity it returns an error and leaves the queue
\* as it was; otherwise it returns Ok and the message is at the tail.
C12_WriteNeverBlocks ==
    /\ [](next_msg <= MaxQueueWrites => ENABLED WriteCall)
    /\ [][next_msg' = next_msg + 1 =>
             IF Len(queue) >= capacity
             THEN write_result' = "err" /\ queue' = queue
             ELSE /\ write_result' = "ok"
                  /\ queue' = Append(queue,
                                     [kind |-> "text", id |-> next_msg])]_vars

C12_Witness ==
    /\ write_result = "err"
    /\ capacity = 2
    /\ Len(queue) = 2
    /\ queue[2].id = queue[1].id + 1

\* The consumers that calls of consumer() have handed out
Consumers == {i \in 1..Len(consumer_results) : consumer_results[i] = "ok"}

\* C27: a WsClient yields at most one consumer: the first call of
\* consumer() takes the receiver and succeeds, every later call returns an
\* error, and a call that returns an error leaves the client (its receiver
\* and its outbound queue) unchanged.
C27_AtMostOneConsumer ==
    /\ [](/\ Cardinality(Consumers) <= 1
          /\ receiver = (consumer_results = << >>)
          /\ \A i \in 1..Len(consumer_results) :
                 consumer_results[i] = IF i = 1 THEN "ok" ELSE "err")
    /\ [][(consumer_results' # consumer_results
               /\ consumer_results'[Len(consumer_results')] = "err") =>
              UNCHANGED <<receiver, queue, capacity>>]_vars

C27_Witness ==
    /\ consumer_results = <<"ok", "err">>
    /\ ~receiver
    /\ queue # << >>

\* C22: a call of CoinbaseWsClient::subscribe that returns a subscription
\* has put its subscribe request on the outbound queue; with the queue full
\* it reports a failure.
C22_SubscribeReportsSaturation ==
    (subscribe_result.called /\ subscribe_result.ok) =>
        subscribe_result.enqueued

----------------------------------------------------------------------------
(* Claims about the runner and the process root, checked under SpecRuntime. *)

\* C16: once a spawned task has failed, the runner cancels the tasks still
\* running and does not wait for them or for a shutdown signal (its run()
\* can return as soon as it is polled), and the error run() returns is the
\* one of the task that failed first.
C16_FirstFailurePropagates ==
    /\ (first_failed # 0 /\ ~shutdown_token /\ runner_pc = "joining") =>
           ENABLED RunnerJoin
    /\ (first_failed # 0 /\ runner_pc = "returned") =>
           runner_result = [tag |-> "err", task |-> first_failed]

\* C20: after SIGTERM or SIGINT the root has cancelled the root token and
\* waits for the runner no longer than SHUTDOWN_TIMEOUT seconds: at the end
\* of the grace period it is never blocked; it leaves the wait without the
\* runner having returned only at that point and then reports the failed
\* shutdown; and it always ends, whether or not the runner returns.
C20_RootBoundedShutdown ==
    /\ [](root_pc = "waiting" =>
             /\ shutdown_token
             /\ signal \in Signals
             /\ grace_elapsed <= SHUTDOWN_TIMEOUT)
    /\ []((root_pc = "waiting" /\ grace_elapsed = SHUTDOWN_TIMEOUT) =>
             ENABLED (RootTimeout \/ RootRunnerReturned \/ RunnerJoin
                          \/ RunnerSpawn))
    /\ [][(root_pc = "waiting" /\ root_pc' = "exited") =>
             IF runner_pc = "returned"
             THEN root_outcome' \in {"clean", "runner_error"}
             ELSE /\ grace_elapsed = SHUTDOWN_TIMEOUT
                  /\ root_outcome' = "timeout"]_vars
    /\ (signal \in Signals) ~> (root_pc = "exited")

C20_Witness ==
    /\ signal = "SIGINT"
    /\ root_pc = "exited"
    /\ root_outcome = "timeout"
    /\ grace_elapsed = SHUTDOWN_TIMEOUT
    /\ runner_pc = "joining"
    /\ task[1] = "running"

\* The status the process ends with: the async block always yields Ok(())
\* (runtime.rs:62), so .expect() passes and main returns, status 0; a panic
\* inside block_on unwinds main, status 101.
ExitCode == IF root_outcome = "panic" THEN 101 ELSE 0

\* C21: when the runner's run() has returned an error and the root has
\* ended, the process ends with a non-zero status; when the root ended
\* after a clean return of the runner, it ends with status 0.
C21_FatalErrorFailsProcess ==
    root_pc = "exited" =>
        /\ (runner_pc = "returned" /\ runner_result.tag = "err") =>
               ExitCode # 0
        /\ root_outcome = "clean" => ExitCode = 0

----------------------------------------------------------------------------
(* Claims about the feed, checked under SpecFeed.                           *)

\* What is on its way to the engine, oldest first: events the engine has
\* been given, events in the event channel, the event collector c holds
Pipeline(c) ==
    processed \o events \o (IF held[c] = NoEvent THEN << >> ELSE <<held[c]>>)

\* Positions of the broadcast messages that reached the price feed
\* collector's event stream
PriceDelivered ==
    {Pipeline("price")[k].id : k \in {n \in DOMAIN Pipeline("price") :
                                        Pipeline("price")[n].src = "price"}}

\* C17: no event is dropped between the callback and the engine: the
\* callback is held back once BufferSlots messages are pending for the
\* subscribed collector, and every ticker of the collector's symbol that was
\* broadcast since it subscribed and that its receiver has passed has
\* reached its event stream.
C17_NoEventDropped ==
    rx_next # 0 =>
        /\ Len(bcast_sent) - (rx_next - 1) <= BufferSlots
        /\ \A i \in rx_from..(rx_next - 1) :
               bcast_sent[i] = "ticker_own" => i \in PriceDelivered

C40_StrategyGetsOwnSymbolOnly ==
    \A i \in 1..Len(processed) :
        handle_internal_event(processed[i], bcast_sent) = "handled"

C40_Witness ==
    /\ rx_next # 0
    /\ \E k \in rx_from..(rx_next - 1) : bcast_sent[k] = "ticker_other"
    /\ \E i, j \in 1..Len(processed) :
           /\ processed[i].src = "price"
           /\ processed[j].src = "pool"
           /\ handle_internal_event(processed[i], bcast_sent) = "handled"
           /\ handle_internal_event(processed[j], bcast_sent) = "handled"

\* C19: unsubscribe_event_stream, once called on a collector (subscribed
\* before or not), has returned Ok and the collector holds no subscription.
C19_UnsubscribeReturns ==
    \A c \in Sources :
        unsub_result[c] # "none" =>
            (unsub_result[c] = "ok" /\ collector[c] # "live")

----------------------------------------------------------------------------
(* Claims about the price engine, checked under SpecPrice.                  *)

\* The value a SpotPrice stands for: numerator / denominator * scale, as an
\* exact rational (denominator # 0)
ExactValue(sp) == RatMul(RatDiv(sp.numerator, sp.denominator), sp.scale)

\* C23: for sqrt_ratio = 2^96 and equal token decimals, (18, 18) among
\* them, the SpotPrice is built and its price is exactly 1 (the value that
\* to_fixed(2, None) is to print as "1.00"), for either value of invert.
C23_UnitRatioGivesOne ==
    (sqrt_ratio_x96 = Val(FALSE, 96, 0, 0)
         /\ token_0_decimals = token_1_decimals) =>
        /\ price_pc # "panic"
        /\ price_pc = "priced" => adjusted_price = One

\* C24: for sqrt_ratio = 2^96 (raw price 1) and every pair of decimal
\* counts, the SpotPrice is built and its adjusted price is exactly
\* 10^token_0_decimals / 10^token_1_decimals; 10^12 for (18, 6).
C24_DecimalScaleMultiplies ==
    sqrt_ratio_x96 = Val(FALSE, 96, 0, 0) =>
        /\ price_pc # "panic"
        /\ price_pc = "priced" =>
               adjusted_price = Pow10(token_0_decimals - token_1_decimals)

\* C25: a zero sqrt_ratio never crashes the computation: the SpotPrice is
\* built and its price is zero, for either value of invert.
C25_ZeroRatioGivesZeroPrice ==
    (sqrt_ratio_x96 = Zero /\ token_0_decimals <= I512_MAX_POW10
                           /\ token_1_decimals <= I512_MAX_POW10) =>
        /\ price_pc # "panic"
        /\ price_pc = "priced" => adjusted_price = Zero

\* C26: for every non-zero sqrt_ratio r and decimal counts d0, d1, the
\* exact values of compute(r, d0, d1, false) and compute(r, d1, d0, true)
\* exist and their product is 1.
C26_InvertIsReciprocal ==
    (sqrt_ratio_x96 # Zero /\ price_pc # "input") =>
        LET mirror == new_from_sqrt_ratio_x96(sqrt_ratio_x96,
                                              token_1_decimals,
                                              token_0_decimals, ~invert,
                                              overflow_checks)
        IN  /\ spot_price # PanicPrice
            /\ mirror # PanicPrice
            /\ RatMul(ExactValue(spot_price), ExactValue(mirror)) = One

----------------------------------------------------------------------------
(* Claims about reconnection, checked under Spec.                          *)

\* The consumer is in an attempt that follows a lost connection or a
\* failed attempt
Reconnecting == pc = "connecting" /\ (conn > 0 \/ fail_streak > 0)

\* C29: every reconnection attempt that follows a lost connection or a
\* failed attempt is preceded by a wait of at least min_delay, and the
\* waits of consecutive failures grow up to max_delay, also after a
\* successful connection has reset the sequencer: no retry with zero delay.
C29_RetryWaitsAtLeastMinDelay ==
    /\ Reconnecting => delays[Len(delays)] >= backoff.min_secs
    /\ \A i \in 1..(Len(delays) - 1) :
           /\ delays[i + 1] >= delays[i]
           /\ delays[i] < backoff.max_secs => delays[i + 1] > delays[i]

PreStream == {"start", "sleeping", "connecting", "on_connect"}

\* C30: a successful attempt resets the sequencer and enters on_connect,
\* which is entered in no other way (once per connection) and before any
\* frame is handed to on_message, any heartbeat count is kept and any
\* outbound message is taken for writing; a failed attempt changes nothing
\* but the position, which goes back to the head of the loop.
C30_ConnectResetsThenHooksOnce ==
    /\ [](pc = "on_connect" =>
              /\ backoff = ExponentialBackoff_reset(backoff)
              /\ calls = 0
              /\ received = 0
              /\ delivered = 0
              /\ num_message_since_last_heartbeat = 0
              /\ cur_frame = "none"
              /\ out_msg = NoMsg)
    /\ [][/\ (pc = "connecting" /\ pc' # pc) =>
                 \/ /\ pc' = "on_connect"
                    /\ conn' = conn + 1
                    /\ backoff' = ExponentialBackoff_reset(backoff)
                 \/ /\ pc' = "start"
                    /\ fail_streak' = fail_streak + 1
                    /\ UNCHANGED <<backoff, conn, result, queue, received,
                                   delivered, cur_frame, out_msg,
                                   num_message_since_last_heartbeat>>
          /\ (pc # "on_connect" /\ pc' = "on_connect") <=> (conn' = conn + 1)
          /\ pc \in PreStream =>
                 /\ UNCHANGED <<cur_frame, out_msg>>
                 /\ Len(queue') >= Len(queue)
                 /\ delivered' <= delivered]_vars

C30_Witness ==
    /\ pc = "on_connect"
    /\ conn = 2
    /\ failed_before = 1
    /\ queue # << >>

----------------------------------------------------------------------------
(* Claims about the hooks and the connection, checked under Spec.          *)

\* C31: on_disconnect is invoked exactly once for each established
\* connection, however the connection ends (a close frame of the peer, a
\* transport error, a shutdown), and never more than once.
C31_DisconnectHookOncePerConnection ==
    /\ disconnects <= 1
    /\ (pc = "start" /\ conn > 0 /\ fail_streak = 0) => disconnects = 1

\* C32: every ping read while streaming puts a pong on the connection the
\* ping arrived on: the hook for a ping returns with the connection still
\* streaming and the pong queued for it, whether or not the outbound queue
\* was full.
C32_PingAnsweredByPong ==
    [][(pc = "on_message" /\ cur_frame = "ping" /\ pc' # pc) =>
           /\ pc' = "select"
           /\ conn' = conn
           /\ open_conns' = open_conns
           /\ Len(queue') > 0
           /\ queue'[Len(queue')].kind = "pong"]_vars

Pending ==
    [i \in 1..(Len(queue) + 1) |->
         IF i <= Len(queue) THEN queue[i] ELSE out_msg]

C35_AtMostOneLiveConnection ==
    /\ open_conns <= 1
    /\ open_conns = (IF pc \in StreamingPcs THEN 1 ELSE 0)

C35_Witness ==
    /\ pc = "connecting"
    /\ conn = 1
    /\ open_conns = 0

\* C39: a well-formed text frame that arrives while no subscriber is
\* attached to the broadcast channel is handled without error: the hook
\* returns and the consumer is streaming on the same connection.
C39_NoSubscriberIsNoError ==
    [][(pc = "on_message" /\ cur_frame = "text_ok" /\ subscribers = 0
            /\ pc' # pc) =>
           /\ pc' = "select"
           /\ conn' = conn
           /\ open_conns' = open_conns]_vars

----------------------------------------------------------------------------
(* A claim about the process root, checked under SpecRuntime.              *)

\* C36: the root drives the runner's run future to completion at most once:
\* when run returns on its own before any signal, the root does not poll
\* the completed future again, so it ends having logged the runner's clean
\* exit or its error and not in the panic of a future polled after its end.
C36_CompletedRunNotPolledAgain ==
    /\ root_outcome # "panic"
    /\ (root_pc = "exited" /\ signal = "none") =>
           root_outcome \in {"clean", "runner_error"}

----------------------------------------------------------------------------
(* Claims about the pool-polling stream, checked under SpecPoll.           *)

\* C37: the pool-polling stream is infinite: a failed poll skips only its
\* own emission, the stream keeps polling, and every successful read is
\* yielded.
C37_FailedPollSkipsOnlyItself ==
    /\ watch_pc = "polling"
    /\ Len(slot_data) =
           Cardinality({i \in 1..Len(poll_results) : poll_results[i] = "ok"})

\* C38: the price emitted from a poll is scaled with the configured decimal
\* counts of the pool's own tokens, scale = 10^token_0 / 10^token_1.
C38_ScaledWithPoolDecimals ==
    \A i \in 1..Len(slot_data) :
        /\ slot_data[i].data.spot_price # PanicPrice
        /\ slot_data[i].data.spot_price.scale =
               Pow10(pool.token_0_decimals - pool.token_1_decimals)
        /\ adjsusted_to_decimal(slot_data[i].data.spot_price) =
               adjsusted_to_decimal(
                   new_from_sqrt_ratio_x96(slot_data[i].data.sqrt_price_x96,
                                           pool.token_0_decimals,
                                           pool.token_1_decimals,
                                           pool.invert, overflow_checks))

----------------------------------------------------------------------------
(* Claims about the decoding of frames, checked under SpecDecode.          *)

\* The frame carries the fields of the message its "type" names
WellFormed(f) ==
    f.type \in {"ticker", "heartbeat", "subscriptions"} /\ f.body = f.type

----------------------------------------------------------------------------
(* Claims about the sequencer, checked under SpecBackoff.                   *)

\* The sequence of section 4.1: delay_0 = min_delay,
\* delay_n = min(max_delay, delay_{n-1} * factor), over the integers.
RECURSIVE IdealDelay(_, _)
IdealDelay(b, n) ==
    IF n = 0 THEN b.min_secs
    ELSE LET d == IdealDelay(b, n - 1)
         IN  IF d > b.max_secs \div b.factor THEN b.max_secs ELSE d * b.factor

\* C6: after reset() the sequencer is indistinguishable from a freshly
\* constructed one with the same parameters: it is in the state new() builds
\* and the next call of next() returns min_delay.
C6_ResetRestoresFresh ==
    /\ (resets > 0 /\ calls = 0) =>
           backoff = ExponentialBackoff_new(backoff.retries, backoff.min_secs,
                                            backoff.max_secs, backoff.factor)
    /\ (resets > 0 /\ calls = 1 /\ last_next.tag = "some") =>
           last_next.val = backoff.min_secs

\* C7: on a freshly constructed sequencer (no reset yet) the n-th call of
\* next() that returns a delay returns delay_n of the ideal sequence
\* (n = calls - 1 counts from 0).
C7_FreshDelaySequence ==
    (resets = 0 /\ last_next.tag = "some") =>
        last_next.val = IdealDelay(backoff, calls - 1)

\* C8: in every reachable state the current delay value_secs() and every
\* delay returned by next() lie in [min_delay, max_delay].
C8_DelayWithinBounds ==
    /\ backoff.min_secs <= value_secs(backoff)
    /\ value_secs(backoff) <= backoff.max_secs
    /\ last_next.tag = "some" =>
           /\ backoff.min_secs <= last_next.val
           /\ last_next.val <= backoff.max_secs

\* C9: with max_retries = N > 0, counted from new() or reset(), each of the
\* first N calls of next() returns a delay; every further call reports
\* exhaustion and leaves counter and delay unchanged.
C9_ExactlyNThenExhausted ==
    [][(backoff.retries > 0 /\ calls' = calls + 1) =>
           IF calls < backoff.retries
           THEN last_next'.tag = "some"
           ELSE last_next' = Exhausted /\ backoff' = backoff]_vars

\* C10: with max_retries = 0 no call of next() reports exhaustion and none
\* faults, whatever the number of consecutive calls.
C10_UnlimitedNeverExhaustsNorFaults ==
    backoff.retries = 0 => last_next.tag \notin {"none", "panic"}

\* C11: between two resets the delays returned by successive calls of next()
\* never decrease, and on a sequencer built by new(0, 1, 5, 10) every delay
\* from the third call on is 5.
C11_DelaysNonDecreasing ==
    /\ [][(calls' = calls + 1 /\ last_next.tag = "some"
              /\ last_next'.tag = "some") =>
             last_next'.val >= last_next.val]_vars
    /\ []((resets = 0 /\ calls >= 3 /\ last_next.tag = "some"
              /\ backoff.retries = 0 /\ backoff.min_secs = 1
              /\ backoff.max_secs = 5 /\ backoff.factor = 10) =>
             last_next.val = 5)

====
